---------------------------- MODULE Spec2Model ----------------------------
(***************************************************************************)
(* State-machine model of craving_ai: the homeostatic regulator            *)
(* (homeostasis.py), the reward engine (reward_engine.py), the critical    *)
(* analyzer (analyzer.py) and the request the LLM wrapper sends            *)
(* (llm_wrapper.py, as called by main.py, interface.py and                 *)
(* creative_generator.py).                                                 *)
(*                                                                         *)
(* Numbers.  Every float of the program is held in thousandths: 0.9 is     *)
(* 900, -1.0 is -1000.  A product with a decimal constant is rounded to    *)
(* the nearest thousandth (Round10), which stands for the rounding of the  *)
(* float operation.                                                        *)
(*                                                                         *)
(* Time.  datetime.now() is the logical clock `now`, which ticks once per  *)
(* update_from_interaction.  A log record is identified by its timestamp;  *)
(* a record of adjustment_log carries its adjustments dict as well.  The   *)
(* rest of the payload (reward, emotion, novelty, pain, the texts) is a    *)
(* function of the update that made the record and is kept for the most    *)
(* recent update only (`last`).                                            *)
(* emotion, novelty_score and coherence_score reach nothing but that       *)
(* payload and the console, so update_from_interaction takes the reward,   *)
(* the pain score and the outcome of its write.                            *)
(*                                                                         *)
(* Text.  A string is the sequence of its whitespace-separated words, the  *)
(* empty sequence being the empty string; the word "." ends a sentence.    *)
(* TfidfVectorizer is modelled by what it computes: the terms it keeps,    *)
(* tf * idf with the smoothed idf ln((1+n)/(1+df)) + 1, the l2 norm, and   *)
(* the cosine of two rows.  difflib.SequenceMatcher compares words where   *)
(* the program compares characters.                                        *)
(***************************************************************************)
EXTENDS Integers, Sequences, FiniteSets, TLC

VARIABLES
    state,            \* HomeostaticRegulator.state : HomeostaticState
    reward_history,   \* HomeostaticRegulator.reward_history (in memory)
    pain_history,     \* HomeostaticRegulator.pain_history (in memory)
    adjustment_log,   \* HomeostaticRegulator.adjustment_log (in memory)
    adjustments,      \* dict returned by the last update_from_interaction
    disk,             \* content of state_file
    now,              \* logical clock behind datetime.now()
    last,             \* the last regulator call: name, arguments, how its write ended
    write_failures,   \* number of failed writes to state_file so far
    memory_responses, \* RewardEngine.memory_responses
    call,             \* arguments of the last calculate_reward
    result,           \* what the last calculate_reward returned, or that it raised
    response_history, \* CriticalAnalyzer.response_history
    analysis_history, \* CriticalAnalyzer.analysis_history
    analyzed,         \* arguments of the last analyze_response
    request,          \* the last request LLMWrapper.generate sent to the API
    memories,         \* EmotionalMemory.memories
    journal,          \* content of SubjectiveJournal.journal_file
    journal_call,     \* the last call of SubjectiveJournal.write_entry
    trail             \* the steps the last _process_interaction completed

regVars == <<state, reward_history, pain_history, adjustment_log,
             adjustments, disk, now, last, write_failures>>

engVars == <<memory_responses, call, result>>

anaVars == <<response_history, analysis_history, analyzed>>

llmVars == <<request>>

orchVars == <<memories, journal, journal_call, trail>>

vars == <<state, reward_history, pain_history, adjustment_log,
          adjustments, disk, now, last, write_failures,
          memory_responses, call, result,
          response_history, analysis_history, analyzed, request,
          memories, journal, journal_call, trail>>

--------------------------------------------------------------------------
(* Helpers *)

Min(a, b) == IF a <= b THEN a ELSE b
Max(a, b) == IF a >= b THEN a ELSE b
Abs(a) == IF a >= 0 THEN a ELSE -a

\* x / 10 rounded to the nearest integer (half away from zero).
Round10(x) == IF x >= 0 THEN (x + 5) \div 10 ELSE -((-x + 5) \div 10)

\* seq[-n:] of Python
LastN(seq, n) ==
    IF Len(seq) <= n THEN seq ELSE SubSeq(seq, Len(seq) - n + 1, Len(seq))

EmptyDict == [k \in {} |-> 0]

\* d.get(k, default) of a Python dict
Get(d, k, default) == IF k \in DOMAIN d THEN d[k] ELSE default

--------------------------------------------------------------------------
(* HomeostaticState *)

StateFields == {"pain_level", "satisfaction_level", "creativity_drive",
                "exploration_tendency", "stability_need", "temperature",
                "top_p", "frequency_penalty", "presence_penalty"}

DriveFields == {"pain_level", "satisfaction_level", "creativity_drive",
                "exploration_tendency", "stability_need"}

\* HomeostaticState(): the dataclass defaults
HomeostaticState ==
    [pain_level |-> 500, satisfaction_level |-> 500, creativity_drive |-> 700,
     exploration_tendency |-> 600, stability_need |-> 400,
     temperature |-> 900, top_p |-> 800,
     frequency_penalty |-> 0, presence_penalty |-> 0]

\* Mutant of to_dict: the sampling parameters are left out of the dict.
to_dict_DrivesOnly(s) == [k \in DriveFields |-> s[k]]

\* asdict(self): the dict of the nine fields
to_dict(s) == [k \in StateFields |-> s[k]]

\* cls(**data): a key that is no field raises TypeError; an absent key
\* takes the dataclass default.
from_dict_raises(data) == ~(DOMAIN data \subseteq StateFields)
from_dict(data) ==
    [k \in StateFields |-> IF k \in DOMAIN data THEN data[k]
                                                 ELSE HomeostaticState[k]]

--------------------------------------------------------------------------
(* HomeostaticRegulator: parameters set in __init__ *)

pain_threshold_high == 600
pain_threshold_low == 300

RewardRetention == 100    \* reward_history[-100:], pain_history[-100:]
AdjustRetention == 50     \* adjustment_log[-50:]

TempBoost == 200
TempCap == 1300
TopPBoost == 200
TopPCap == 1000
CreativityBoost == 200
TempDamp == 100
TempFloor == 700
TopPDamp == 100
TopPFloor == 700
Deadband == 50

\* Mutant of SmoothPain: the two weights are 0.6 and sum to 1.2.
SmoothPain_Overshoot(pain, pain_score) == Round10(6 * pain + 6 * pain_score)

\* Line 122-124: pain_level * 0.6 + pain_score * 0.4
SmoothPain(pain, pain_score) == Round10(6 * pain + 4 * pain_score)

\* Line 127-130: max(0, min(1, satisfaction_level + reward * 0.4))
NewSatisfaction(sat, reward) == Max(0, Min(1000, sat + Round10(4 * reward)))

\* Mutant of Applied: the deadband is 0.15.
Applied_WideDeadband(old, new) == IF Abs(new - old) > 150 THEN new ELSE old

\* `if abs(new - old) > 0.05`: the value a parameter takes
Applied(old, new) == IF Abs(new - old) > Deadband THEN new ELSE old

\* The entry the adjustments dict gets for one parameter (none inside the
\* deadband)
AdjEntry(key, old, new) ==
    IF Abs(new - old) > Deadband THEN key :> [old |-> old, new |-> new]
                                 ELSE EmptyDict

\* Mutant of HighPainState: the boosts are applied without their caps.
HighPainState_NoCap(s) ==
    [s EXCEPT !.temperature = Applied(@, @ + TempBoost),
              !.top_p = Applied(@, @ + TopPBoost),
              !.creativity_drive = Min(1000, @ + CreativityBoost)]

\* Lines 135-157: pain above pain_threshold_high
HighPainState(s) ==
    [s EXCEPT !.temperature = Applied(@, Min(@ + TempBoost, TempCap)),
              !.top_p = Applied(@, Min(@ + TopPBoost, TopPCap)),
              !.creativity_drive = Min(1000, @ + CreativityBoost)]

HighPainAdjustments(s) ==
    AdjEntry("temperature", s.temperature, Min(s.temperature + TempBoost, TempCap))
    @@ AdjEntry("top_p", s.top_p, Min(s.top_p + TopPBoost, TopPCap))

\* Mutant of LowPainState: the temperature is damped without its floor.
LowPainState_NoFloor(s) ==
    [s EXCEPT !.temperature = Applied(@, @ - TempDamp),
              !.top_p = Applied(@, Max(@ - TopPDamp, TopPFloor))]

\* Mutant of LowPainState: low pain also lowers the creativity drive.
LowPainState_CoolsCreativity(s) ==
    [s EXCEPT !.temperature = Applied(@, Max(@ - TempDamp, TempFloor)),
              !.top_p = Applied(@, Max(@ - TopPDamp, TopPFloor)),
              !.creativity_drive = Max(0, @ - 100)]

\* Lines 159-178: pain below pain_threshold_low
LowPainState(s) ==
    [s EXCEPT !.temperature = Applied(@, Max(@ - TempDamp, TempFloor)),
              !.top_p = Applied(@, Max(@ - TopPDamp, TopPFloor))]

LowPainAdjustments(s) ==
    AdjEntry("temperature", s.temperature, Max(s.temperature - TempDamp, TempFloor))
    @@ AdjEntry("top_p", s.top_p, Max(s.top_p - TopPDamp, TopPFloor))

\* Mutant of Smoothed: the update also sets the frequency penalty, as the
\* unused _adjust_llm_parameters would (pain_level * 0.5).
Smoothed_SetsPenalty(s, reward, pain_score) ==
    [s EXCEPT !.pain_level = SmoothPain(@, pain_score),
              !.satisfaction_level = NewSatisfaction(@, reward),
              !.frequency_penalty = Round10(5 * SmoothPain(s.pain_level,
                                                           pain_score))]

\* Lines 117-130: the state after smoothing pain and moving satisfaction
Smoothed(s, reward, pain_score) ==
    [s EXCEPT !.pain_level = SmoothPain(@, pain_score),
              !.satisfaction_level = NewSatisfaction(@, reward)]

\* Mutant of UpdatedState: the thresholds are tested on the pain_score
\* argument instead of the smoothed pain_level.
UpdatedState_TestsPainScore(s, reward, pain_score) ==
    LET m == Smoothed(s, reward, pain_score) IN
    IF pain_score > pain_threshold_high THEN HighPainState(m)
    ELSE IF pain_score < pain_threshold_low THEN LowPainState(m)
    ELSE m

\* Lines 117-178: the state update_from_interaction leaves
UpdatedState(s, reward, pain_score) ==
    LET m == Smoothed(s, reward, pain_score) IN
    IF m.pain_level > pain_threshold_high THEN HighPainState(m)
    ELSE IF m.pain_level < pain_threshold_low THEN LowPainState(m)
    ELSE m

\* The state after k consecutive update_from_interaction calls with the
\* same reward and pain_score
RECURSIVE RunOf(_, _, _, _)
RunOf(s, reward, pain_score, k) ==
    IF k = 0 THEN s
    ELSE RunOf(UpdatedState(s, reward, pain_score), reward, pain_score, k - 1)

\* Whether temperature and top_p have the given values in s and keep them
\* over k more update_from_interaction calls with the same arguments
RECURSIVE StaysAt(_, _, _, _, _, _)
StaysAt(s, reward, pain_score, k, temperature, top_p) ==
    /\ s.temperature = temperature
    /\ s.top_p = top_p
    /\ \/ k = 0
       \/ StaysAt(UpdatedState(s, reward, pain_score), reward, pain_score,
                  k - 1, temperature, top_p)

\* Lines 133-178: the adjustments dict update_from_interaction returns
UpdateAdjustments(s, reward, pain_score) ==
    LET m == Smoothed(s, reward, pain_score) IN
    IF m.pain_level > pain_threshold_high THEN HighPainAdjustments(m)
    ELSE IF m.pain_level < pain_threshold_low THEN LowPainAdjustments(m)
    ELSE EmptyDict

\* Mutant of AdjustmentRecord: the record is written without its
\* adjustments when there are none.
AdjustmentRecord_OmitsEmpty(t, adj) ==
    IF adj = EmptyDict THEN [timestamp |-> t]
    ELSE [timestamp |-> t, adjustments |-> adj]

\* Lines 189-194: the record appended to adjustment_log ('pain_change' and
\* 'trigger' are texts for the reader)
AdjustmentRecord(t, adj) == [timestamp |-> t, adjustments |-> adj]

--------------------------------------------------------------------------
(* Persistence *)

\* The file is absent, holds text json.load rejects, or holds a document.
Absent == [kind |-> "absent"]
Corrupt == [kind |-> "corrupt"]
Document(data) == [kind |-> "document", data |-> data]

\* Lines 78-84: the document _save_state writes
SaveData(s, rh, ph, al, t) ==
    [state |-> to_dict(s),
     reward_history |-> LastN(rh, RewardRetention),
     pain_history |-> LastN(ph, RewardRetention),
     adjustment_log |-> LastN(al, AdjustRetention),
     last_update |-> t]

\* How a write can end: done; open() failed and the file is untouched;
\* the dump failed after open(..., 'w') truncated the file.
WriteOutcomes == {"ok", "open_failed", "partial"}

\* Lines 75-89: the file after _save_state; the exception is swallowed
Saved(old_disk, s, rh, ph, al, t, w) ==
    CASE w = "ok" -> Document(SaveData(s, rh, ph, al, t))
      [] w = "open_failed" -> old_disk
      [] OTHER -> Corrupt

\* Lines 63-71: the file can be loaded (no FileNotFoundError,
\* JSONDecodeError or KeyError)
Loadable(d) == d.kind = "document" /\ "state" \in DOMAIN d.data

--------------------------------------------------------------------------
(* Operations of HomeostaticRegulator *)

\* Mutant of update_from_interaction: _save_state lets the exception of a
\* failed write through, so the call does not return its adjustments.
update_from_interaction_FatalWrite(reward, pain_score, w) ==
    LET rh == Append(reward_history, [timestamp |-> now])
        ph == Append(pain_history, [timestamp |-> now])
        al == Append(adjustment_log,
                    AdjustmentRecord(now, UpdateAdjustments(state, reward,
                                                            pain_score)))
        s  == UpdatedState(state, reward, pain_score)
    IN  /\ state' = s
        /\ reward_history' = rh
        /\ pain_history' = ph
        /\ adjustment_log' = al
        /\ adjustments' = IF w = "ok"
                          THEN UpdateAdjustments(state, reward, pain_score)
                          ELSE adjustments
        /\ disk' = Saved(disk, s, rh, ph, al, now, w)
        /\ now' = now + 1
        /\ last' = [op |-> IF w = "ok" THEN "update" ELSE "raised",
                     reward |-> reward, pain_score |-> pain_score,
                     write |-> w]
        /\ write_failures' = write_failures + (IF w = "ok" THEN 0 ELSE 1)

\* Lines 91-198
update_from_interaction(reward, pain_score, w) ==
    LET rh == Append(reward_history, [timestamp |-> now])
        ph == Append(pain_history, [timestamp |-> now])
        al == Append(adjustment_log,
                    AdjustmentRecord(now, UpdateAdjustments(state, reward,
                                                            pain_score)))
        s  == UpdatedState(state, reward, pain_score)
    IN  /\ state' = s
        /\ reward_history' = rh
        /\ pain_history' = ph
        /\ adjustment_log' = al
        /\ adjustments' = UpdateAdjustments(state, reward, pain_score)
        /\ disk' = Saved(disk, s, rh, ph, al, now, w)
        /\ now' = now + 1
        /\ last' = [op |-> "update", reward |-> reward,
                     pain_score |-> pain_score, write |-> w]
        /\ write_failures' = write_failures + (IF w = "ok" THEN 0 ELSE 1)

\* Mutant of force_reset: the adjustment log survives the reset.
force_reset_KeepsLog(w) ==
    /\ state' = HomeostaticState
    /\ reward_history' = <<>>
    /\ pain_history' = <<>>
    /\ disk' = Saved(disk, HomeostaticState, <<>>, <<>>, adjustment_log, now, w)
    /\ last' = [op |-> "reset", write |-> w]
    /\ write_failures' = write_failures + (IF w = "ok" THEN 0 ELSE 1)
    /\ UNCHANGED <<adjustments, now, adjustment_log>>

\* Lines 286-293
force_reset(w) ==
    /\ state' = HomeostaticState
    /\ reward_history' = <<>>
    /\ pain_history' = <<>>
    /\ adjustment_log' = <<>>
    /\ disk' = Saved(disk, HomeostaticState, <<>>, <<>>, <<>>, now, w)
    /\ last' = [op |-> "reset", write |-> w]
    /\ write_failures' = write_failures + (IF w = "ok" THEN 0 ELSE 1)
    /\ UNCHANGED <<adjustments, now>>

\* Lines 43-73: a new regulator on the same state_file.  A loadable file
\* gives the state and the logs; a file that is missing, is no JSON or has
\* no 'state' entry (FileNotFoundError, JSONDecodeError, KeyError) gives
\* the defaults, which are saved.  The TypeError of from_dict is none of
\* the three exceptions caught at line 71: it leaves the constructor, and
\* no regulator exists (last.op = "raised"; the other variables keep the
\* values of the process before).
Construct(w) ==
    /\ IF Loadable(disk) /\ from_dict_raises(disk.data.state)
       THEN /\ w = "ok"
            /\ last' = [op |-> "raised", write |-> "none"]
            /\ UNCHANGED <<state, reward_history, pain_history,
                           adjustment_log, disk, write_failures>>
       ELSE IF Loadable(disk)
       THEN /\ w = "ok"
            /\ state' = from_dict(disk.data.state)
            /\ reward_history' = Get(disk.data, "reward_history", <<>>)
            /\ pain_history' = Get(disk.data, "pain_history", <<>>)
            /\ adjustment_log' = Get(disk.data, "adjustment_log", <<>>)
            /\ disk' = disk
            /\ last' = [op |-> "load", write |-> "none"]
            /\ write_failures' = write_failures
       ELSE /\ state' = HomeostaticState
            /\ reward_history' = <<>>
            /\ pain_history' = <<>>
            /\ adjustment_log' = <<>>
            /\ disk' = Saved(disk, HomeostaticState, <<>>, <<>>, <<>>, now, w)
            /\ last' = [op |-> "init", write |-> w]
            /\ write_failures' = write_failures + (IF w = "ok" THEN 0 ELSE 1)
    /\ adjustments' = EmptyDict
    /\ UNCHANGED now

\* Lines 258-265
get_current_llm_config ==
    [temperature |-> state.temperature, top_p |-> state.top_p,
     frequency_penalty |-> state.frequency_penalty,
     presence_penalty |-> state.presence_penalty]

--------------------------------------------------------------------------
(* RewardEngine: text vectorisation (TfidfVectorizer, cosine_similarity) *)

\* Words the vectorizer does not index: English stop words
\* (stop_words='english'), tokens of fewer than two characters and
\* punctuation (the default token_pattern).
NotIndexed == {"the", "a", "."}

\* Sum of the values of a function with a finite domain
RECURSIVE SumFun(_)
SumFun(f) ==
    IF DOMAIN f = {} THEN 0
    ELSE LET k == CHOOSE x \in DOMAIN f : TRUE
         IN  f[k] + SumFun([x \in DOMAIN f \ {k} |-> f[x]])

\* Integer square root (floor), by Newton's iteration
RECURSIVE SqrtIter(_, _)
SqrtIter(x, r) ==
    LET n == (r + x \div r) \div 2
    IN  IF n >= r THEN r ELSE SqrtIter(x, n)

Isqrt(x) == IF x <= 0 THEN 0 ELSE SqrtIter(x, x)

\* 1000 * ln(k) for k = 1 .. 54
LnMilli ==
    <<0, 693, 1099, 1386, 1609, 1792, 1946, 2079, 2197,
      2303, 2398, 2485, 2565, 2639, 2708, 2773, 2833, 2890,
      2944, 2996, 3045, 3091, 3135, 3178, 3219, 3258, 3296,
      3332, 3367, 3401, 3434, 3466, 3497, 3526, 3555, 3584,
      3611, 3638, 3664, 3689, 3714, 3738, 3761, 3784, 3807,
      3829, 3850, 3871, 3892, 3912, 3932, 3951, 3970, 3989>>

Terms(doc) == {doc[i] : i \in DOMAIN doc} \ NotIndexed

Tf(t, doc) == Cardinality({i \in DOMAIN doc : doc[i] = t})

\* The vocabulary fit_transform learns; it raises ValueError when empty.
Vocabulary(docs) == UNION {Terms(docs[i]) : i \in DOMAIN docs}

Df(t, docs) == Cardinality({i \in DOMAIN docs : t \in Terms(docs[i])})

\* smooth_idf: ln((1 + n) / (1 + df)) + 1
Idf(t, docs) == LnMilli[Len(docs) + 1] - LnMilli[Df(t, docs) + 1] + 1000

\* One row of the tf-idf matrix before normalisation
Row(doc, docs) == [t \in Vocabulary(docs) |-> Tf(t, doc) * Idf(t, docs)]

Norm(row) == Isqrt(SumFun([t \in DOMAIN row |-> row[t] * row[t]]))

\* norm='l2': the row divided by its norm; a zero row stays zero
UnitRow(doc, docs) ==
    LET row == Row(doc, docs)
        n   == Norm(row)
    IN  [t \in DOMAIN row |->
            IF n = 0 THEN 0 ELSE (1000 * row[t] + n \div 2) \div n]

\* cosine_similarity of the rows of two documents of one fit
Cosine(a, b, docs) ==
    LET ua == UnitRow(a, docs)
        ub == UnitRow(b, docs)
    IN  (SumFun([t \in DOMAIN ua |-> ua[t] * ub[t]]) + 500) \div 1000

RECURSIVE MaxOf(_)
MaxOf(S) ==
    LET x == CHOOSE y \in S : TRUE
    IN  IF S = {x} THEN x ELSE Max(x, MaxOf(S \ {x}))

--------------------------------------------------------------------------
(* RewardEngine: the metrics *)

\* Lines 53-57: fit_transform([response] + memory) raises ValueError on an
\* empty vocabulary
NoveltyRaises(response, memory) ==
    memory # <<>> /\ Vocabulary(<<response>> \o memory) = {}

\* Lines 43-66: 1 - the largest cosine with any remembered response
calculate_novelty_strict(response, memory) ==
    IF memory = <<>> THEN 1000
    ELSE LET docs == <<response>> \o memory
         IN  1000 - MaxOf({Cosine(response, memory[i], docs) :
                              i \in DOMAIN memory})

\* Line 80: fit_transform([prompt, response]) raises on an empty vocabulary
RelevanceRaises(prompt, response) == Vocabulary(<<prompt, response>>) = {}

\* Lines 68-86
calculate_relevance(prompt, response) ==
    Cosine(prompt, response, <<prompt, response>>)

\* Line 106: math.log2(len(set(response))) raises ValueError on ''
EntropyRaises(response) == response = <<>>

\* Lines 35-41
emotional_words ==
    [joy |-> {"joie", "bonheur", "euphorie", "ravissement", "extase"},
     pain |-> {"douleur", "souffrance", "angoisse", "tourment", "affliction"},
     curiosity |-> {"curiosité", "fascination", "intrigue", "mystère"},
     frustration |-> {"frustration", "irritation", "agacement", "colère"},
     wonder |-> {"émerveillement", "stupéfaction", "admiration"}]

\* The order in which the dict of line 35 is iterated
EmotionOrder == <<"joy", "pain", "curiosity", "frustration", "wonder">>

\* Line 124: occurrences of the words of one list
EmotionCount(emotion, response) ==
    Cardinality({i \in DOMAIN response :
                    response[i] \in emotional_words[emotion]})

\* Line 130: max(emotion_counts, key=emotion_counts.get), the first of the
\* largest counts in iteration order
DominantEmotion(response) ==
    LET c(i) == EmotionCount(EmotionOrder[i], response)
        best == CHOOSE i \in DOMAIN EmotionOrder :
                   /\ \A j \in DOMAIN EmotionOrder : c(j) <= c(i)
                   /\ \A j \in DOMAIN EmotionOrder : j < i => c(j) < c(i)
    IN  EmotionOrder[best]

\* Lines 133-134: min(1.0, total_count / 20)
EmotionalIntensity(response) ==
    Min(1000, (1000 * SumFun([i \in DOMAIN EmotionOrder |->
                                EmotionCount(EmotionOrder[i], response)]))
                 \div 20)

\* Line 189-190: min(1.0, words / 100) if words > 10 else 0.3
CoherenceScore(response) ==
    IF Len(response) > 10 THEN Min(1000, 10 * Len(response)) ELSE 300

--------------------------------------------------------------------------
(* RewardEngine: the reward *)

NoveltyGate == 350
CrushingPain == "douleur accablante"

\* artifact=None, or a dict with a type and a content of some length
NoArtifact == [is_none |-> TRUE, type |-> "", content_length |-> 0]
Artifact(type, n) == [is_none |-> FALSE, type |-> type, content_length |-> n]

\* Lines 138-158
bonus_creation(artifact) ==
    IF ~artifact.is_none /\ artifact.type # "" /\ artifact.content_length > 0
    THEN IF artifact.content_length > 100 THEN 400
         ELSE IF artifact.content_length > 50 THEN 300
         ELSE IF artifact.content_length > 20 THEN 200
         ELSE 100
    ELSE 0

\* Mutant of BlendedReward: the final min/max normalisation is missing.
BlendedReward_NoClamp(novelty, relevance, tag, artifact) ==
    LET weighted == Round10(6 * novelty + 4 * relevance)
        bonus    == IF artifact.is_none THEN 0 ELSE bonus_creation(artifact)
        adjust   == IF tag \in {"pain", "frustration"} THEN -200
                    ELSE IF tag \in {"joy", "wonder"} THEN 100
                    ELSE 0
    IN  2 * (weighted + bonus + adjust) - 1000

\* Mutant of BlendedReward: the pain/frustration adjustment is -0.5.
BlendedReward_HeavyPenalty(novelty, relevance, tag, artifact) ==
    LET weighted == Round10(6 * novelty + 4 * relevance)
        bonus    == IF artifact.is_none THEN 0 ELSE bonus_creation(artifact)
        adjust   == IF tag \in {"pain", "frustration"} THEN -500
                    ELSE IF tag \in {"joy", "wonder"} THEN 100
                    ELSE 0
    IN  Max(-1000, Min(1000, 2 * (weighted + bonus + adjust) - 1000))

\* Mutant of BlendedReward: the weights of novelty and relevance are
\* exchanged (0.4 and 0.6).
BlendedReward_RelevanceFirst(novelty, relevance, tag, artifact) ==
    LET weighted == Round10(4 * novelty + 6 * relevance)
        bonus    == IF artifact.is_none THEN 0 ELSE bonus_creation(artifact)
        adjust   == IF tag \in {"pain", "frustration"} THEN -200
                    ELSE IF tag \in {"joy", "wonder"} THEN 100
                    ELSE 0
    IN  Max(-1000, Min(1000, 2 * (weighted + bonus + adjust) - 1000))

\* Lines 198-217: the weighted formula, the creation bonus, the emotion
\* adjustment and the final normalisation
BlendedReward(novelty, relevance, tag, artifact) ==
    LET weighted == Round10(6 * novelty + 4 * relevance)
        bonus    == IF artifact.is_none THEN 0 ELSE bonus_creation(artifact)
        adjust   == IF tag \in {"pain", "frustration"} THEN -200
                    ELSE IF tag \in {"joy", "wonder"} THEN 100
                    ELSE 0
    IN  Max(-1000, Min(1000, 2 * (weighted + bonus + adjust) - 1000))

\* Mutant of FinalReward: the gate keeps the threshold of the earlier
\* revision, 0.25.
FinalReward_OldGate(novelty, relevance, tag, artifact) ==
    IF novelty < 250 THEN -1000
    ELSE BlendedReward(novelty, relevance, tag, artifact)

\* Lines 192-217: final_reward
FinalReward(novelty, relevance, tag, artifact) ==
    IF novelty < NoveltyGate THEN -1000
    ELSE BlendedReward(novelty, relevance, tag, artifact)

\* Lines 193-196: the emotion tag returned
FinalTag(novelty, tag) == IF novelty < NoveltyGate THEN CrushingPain ELSE tag

\* Line 220: 1.0 - ((final_reward + 1.0) / 2.0)
PainLevel(final_reward) == 1000 - ((final_reward + 1000) \div 2)

\* Mutant of Remembered: the cut keeps the 25 oldest entries.
Remembered_KeepsOldest(memory, response) ==
    LET m == Append(memory, response)
    IN  IF Len(m) > 50 THEN SubSeq(m, 1, 25) ELSE m

\* Lines 223-225: the history after the response is stored
Remembered(memory, response) ==
    LET m == Append(memory, response)
    IN  IF Len(m) > 50 THEN LastN(m, 25) ELSE m

\* What calculate_reward returns from the metrics it computed
Returned(novelty, relevance, intensity, tag, coherence, artifact) ==
    LET final == FinalReward(novelty, relevance, tag, artifact)
    IN  [outcome |-> "returned",
         reward |-> final,
         emotion_tag |-> FinalTag(novelty, tag),
         metrics |-> [novelty_score |-> novelty,
                      relevance_score |-> relevance,
                      coherence_score |-> coherence,
                      emotional_intensity |-> intensity],
         pain_level |-> PainLevel(final)]

Raised == [outcome |-> "raised"]

\* Lines 160-229.  An exception of a metric leaves the call before the
\* response is stored.
calculate_reward(prompt, response, artifact) ==
    /\ call' = [prompt |-> prompt, response |-> response, artifact |-> artifact]
    /\ IF \/ NoveltyRaises(response, memory_responses)
          \/ RelevanceRaises(prompt, response)
          \/ EntropyRaises(response)
       THEN /\ result' = Raised
            /\ memory_responses' = memory_responses
       ELSE /\ result' = Returned(
                   calculate_novelty_strict(response, memory_responses),
                   calculate_relevance(prompt, response),
                   EmotionalIntensity(response),
                   DominantEmotion(response),
                   CoherenceScore(response),
                   artifact)
            /\ memory_responses' = Remembered(memory_responses, response)

--------------------------------------------------------------------------
(* CriticalAnalyzer: texts *)

\* A text of the analyzer is its tokens joined by single spaces, the token
\* "." ending a sentence: <<"puis", "ab", ".", "cd">> is "puis ab . cd".
\* response.split() is the sequence itself; a word or a phrase of a list
\* is found in a text when its tokens occur there side by side.

\* len(word) of the tokens used
WordLength(w) ==
    CASE w \in {"."} -> 1
      [] w \in {"ab", "cd", "ef", "je"} -> 2
      [] w \in {"the"} -> 3
      [] w \in {"puis", "donc", "cool", "joie", "crée"} -> 4
      [] w \in {"enfin", "ainsi"} -> 5
      [] w \in {"ensuite", "profond", "douleur", "quoique"} -> 7
      [] w \in {"pourquoi"} -> 8
      [] OTHER -> 6

WordSet(t) == {t[i] : i \in DOMAIN t}

Occurrences(phrase, t) ==
    Cardinality({i \in 1..(Len(t) - Len(phrase) + 1) :
                    SubSeq(t, i, i + Len(phrase) - 1) = phrase})

Occurs(phrase, t) == Occurrences(phrase, t) > 0

\* re.split(r'[.!?]+', response): the pieces between the sentence ends,
\* empty ones included
RECURSIVE RawSentences(_)
RawSentences(t) ==
    IF \A i \in DOMAIN t : t[i] # "." THEN <<t>>
    ELSE LET i == CHOOSE j \in DOMAIN t :
                     t[j] = "." /\ \A k \in 1..(j - 1) : t[k] # "."
         IN  <<SubSeq(t, 1, i - 1)>> \o RawSentences(SubSeq(t, i + 1, Len(t)))

\* [s.strip() for s in sentences if s.strip()]
Sentences(t) == SelectSeq(RawSentences(t), LAMBDA x : x # <<>>)

\* len(a & b) / len(a | b) of two sets of words, one of them not empty
Jaccard(A, B) == (1000 * Cardinality(A \cap B)) \div Cardinality(A \cup B)

--------------------------------------------------------------------------
(* CriticalAnalyzer: the scores *)

\* Lines 38-42
redundancy_patterns ==
    {<<"en", "fait">>, <<"en", "réalité">>, <<"c'est-à-dire">>,
     <<"autrement", "dit">>, <<"donc">>, <<"par", "conséquent">>,
     <<"ainsi">>, <<"de", "ce", "fait">>, <<"cependant">>, <<"néanmoins">>,
     <<"toutefois">>, <<"pourtant">>}

\* Lines 78-121
analyze_redundancy(response) ==
    IF Len(response) < 10 THEN 0
    ELSE
    LET repetition == 1000 - (1000 * Cardinality(WordSet(response)))
                                 \div Len(response)
        patterns   == SumFun([ph \in redundancy_patterns |->
                                 Occurrences(ph, response)])
        pattern_score == Min(1000, (1000 * patterns) \div 10)
        raw   == RawSentences(response)
        n     == Len(raw)
        pairs == {pr \in (1..n) \X (1..n) : pr[1] < pr[2]}
        sim(pr) == LET a == WordSet(raw[pr[1]])
                       b == WordSet(raw[pr[2]])
                   IN  IF a # {} /\ b # {} THEN Jaccard(a, b) ELSE 0
        similarity == IF n > 1
                      THEN SumFun([pr \in pairs |-> sim(pr)])
                              \div ((n * (n - 1)) \div 2)
                      ELSE 0
    IN  Round10(4 * repetition + 3 * pattern_score + 3 * similarity)

\* Lines 140-143
connectors ==
    {<<"ainsi">>, <<"donc">>, <<"par", "conséquent">>, <<"cependant">>,
     <<"néanmoins">>, <<"en", "effet">>, <<"de", "plus">>, <<"en", "outre">>,
     <<"finalement">>, <<"en", "conclusion">>}

\* Line 153
transition_words ==
    {<<"d'abord">>, <<"ensuite">>, <<"puis">>, <<"enfin">>,
     <<"premièrement">>, <<"deuxièmement">>}

\* The pairs (sentence, phrase) with the phrase in the sentence
PhraseHits(phrases, sentences) ==
    Cardinality({pr \in (DOMAIN sentences) \X phrases :
                    Occurs(pr[2], sentences[pr[1]])})

\* Lines 123-165
analyze_coherence(response) ==
    LET sentences == Sentences(response)
        n == Len(sentences)
    IN  IF n < 2 THEN 700
        ELSE
        LET connector_score ==
                Min(1000, (1000 * PhraseHits(connectors, sentences)) \div n)
            transition_score ==
                (1000 * PhraseHits(transition_words, sentences)) \div n
            words == UNION {WordSet(sentences[i]) : i \in DOMAIN sentences}
            count(w) == SumFun([i \in DOMAIN sentences |->
                                   Occurrences(<<w>>, sentences[i])])
            important_words ==
                {w \in words : count(w) > 1 /\ WordLength(w) > 4}
            cohesion_score ==
                Min(1000, (1000 * Cardinality(important_words)) \div 10)
        IN  Round10(4 * connector_score + 3 * transition_score
                      + 3 * cohesion_score)

\* Lines 167-195: 1 - the mean Jaccard similarity with the last 5 responses
calculate_surprise_factor(response, history) ==
    IF history = <<>> THEN 1000
    ELSE
    LET recent == LastN(history, 5)
        current_words == WordSet(response)
        compared == {i \in DOMAIN recent :
                        current_words # {} /\ WordSet(recent[i]) # {}}
    IN  IF compared = {} THEN 1000
        ELSE 1000 - SumFun([i \in compared |->
                               Jaccard(current_words, WordSet(recent[i]))])
                       \div Cardinality(compared)

\* difflib.SequenceMatcher: the matching blocks are the longest common
\* block (the earliest in a, then in b, among the longest) and, recursively,
\* those to its left and to its right; Matched is their total size.  The
\* elements compared here are the words of the texts.
RECURSIVE Matched(_, _)
Matched(a, b) ==
    LET blocks == {blk \in (DOMAIN a) \X (DOMAIN b) \X (1..Min(Len(a), Len(b))) :
                      /\ blk[1] + blk[3] - 1 <= Len(a)
                      /\ blk[2] + blk[3] - 1 <= Len(b)
                      /\ SubSeq(a, blk[1], blk[1] + blk[3] - 1)
                            = SubSeq(b, blk[2], blk[2] + blk[3] - 1)}
    IN  IF blocks = {} THEN 0
        ELSE
        LET best == CHOOSE x \in blocks : \A y \in blocks :
                        \/ y[3] < x[3]
                        \/ y[3] = x[3] /\ x[1] < y[1]
                        \/ y[3] = x[3] /\ x[1] = y[1] /\ x[2] <= y[2]
        IN  best[3]
            + Matched(SubSeq(a, 1, best[1] - 1), SubSeq(b, 1, best[2] - 1))
            + Matched(SubSeq(a, best[1] + best[3], Len(a)),
                      SubSeq(b, best[2] + best[3], Len(b)))

\* SequenceMatcher.ratio(): 2 * M / T, and 1.0 for two empty sequences
Ratio(a, b) ==
    IF Len(a) + Len(b) = 0 THEN 1000
    ELSE (2000 * Matched(a, b)) \div (Len(a) + Len(b))

\* Lines 61-76: 1 - the largest ratio with the last 3 entries of history
novelty_score(response, history) ==
    IF history = <<>> THEN 1000
    ELSE LET recent == LastN(history, 3)
         IN  1000 - MaxOf({0} \cup {Ratio(recent[i], response) :
                                       i \in DOMAIN recent})

\* analyzer.py lines 231-235
complex_patterns ==
    {<<"bien", "que">>, <<"quoique">>, <<"malgré", "que">>,
     <<"afin", "que">>, <<"pour", "que">>, <<"de", "sorte", "que">>,
     <<"si", "bien", "que">>, <<"de", "telle", "sorte", "que">>}

\* Lines 198-241
analyze_complexity(response) ==
    IF response = <<>> THEN 0
    ELSE
    LET n == Len(response)
        letters == SumFun([i \in DOMAIN response |-> WordLength(response[i])])
        word_complexity == Min(1000, (1000 * letters) \div (8 * n))
        sentences == Sentences(response)
        sentence_words == SumFun([i \in DOMAIN sentences |->
                                     Len(sentences[i])])
        sentence_complexity ==
            IF sentences # <<>>
            THEN Min(1000, (1000 * sentence_words) \div (20 * Len(sentences)))
            ELSE 0
        lexical_diversity == (1000 * Cardinality(WordSet(response))) \div n
        syntax_complexity ==
            (1000 * SumFun([ph \in complex_patterns |->
                               Occurrences(ph, response)])) \div n
    IN  Round10(3 * word_complexity + 3 * sentence_complexity
                  + 2 * lexical_diversity + 2 * syntax_complexity)

\* Lines 46-52
depth_indicators ==
    [high |-> {"profond", "intime", "essentiel", "fondamental",
               "transcendant", "existentiel", "viscéral", "authentique"},
     medium |-> {"important", "significatif", "remarquable", "personnel",
                 "touchant", "émouvant"},
     low |-> {"intéressant", "sympa", "cool", "bien", "ok"}]

\* analyzer.py lines 277-280
existential_patterns ==
    {<<"pourquoi">>, <<"qu'est-ce", "que">>, <<"que", "signifie">>,
     <<"sens", "de">>, <<"nature", "de">>, <<"essence", "de">>}

\* Lines 243-287
analyze_emotional_depth(response) ==
    LET present(level) ==
            Cardinality(depth_indicators[level] \cap WordSet(response))
        depth_score == 800 * present("high") + 500 * present("medium")
                          - 200 * present("low")
        introspection_count ==
            SumFun([w \in {"je", "mon", "ma", "mes"} |->
                       Occurrences(<<w>>, response)])
        introspection_score ==
            Min(300, (1000 * introspection_count) \div 20)
        existential_count ==
            SumFun([ph \in existential_patterns |->
                       Occurrences(ph, response)])
        existential_score == Min(300, (1000 * existential_count) \div 5)
    IN  Min(1000, Max(0, depth_score + introspection_score
                            + existential_score))

\* Lines 55-59
creative_triggers ==
    {"invente", "crée", "create", "génère", "generate", "build", "imagine",
     "fabrique", "conçois", "développe", "produire", "composer", "concevoir",
     "innover", "élaborer", "forger", "dessiner", "modéliser"}

\* Lines 289-308
detect_creative_triggers(prompt, pain_level) ==
    \/ creative_triggers \cap WordSet(prompt) # {}
    \/ pain_level > 550

--------------------------------------------------------------------------
(* CriticalAnalyzer: analyze_response *)

\* Lines 310-343: the parts of the feedback, each named by its subject;
\* the text is their join and is never empty
generate_feedback(r) ==
    LET part(cond, name) == IF cond THEN <<name>> ELSE <<>>
        parts ==
            (IF r.redundancy_score > 700 THEN <<"très redondante">>
             ELSE part(r.redundancy_score > 500, "quelques répétitions"))
            \o (IF r.coherence_score < 400 THEN <<"manque de cohérence">>
                ELSE part(r.coherence_score > 800, "excellente structure"))
            \o (IF r.surprise_factor < 300 THEN <<"prévisible">>
                ELSE part(r.surprise_factor > 700, "originale"))
            \o (IF r.emotional_depth < 300 THEN <<"manque de profondeur">>
                ELSE part(r.emotional_depth > 700, "belle profondeur"))
            \o (IF r.complexity_score < 300 THEN <<"trop simple">>
                ELSE part(r.complexity_score > 800, "sophistication"))
    IN  IF parts = <<>> THEN <<"équilibrée">> ELSE parts

\* analyzer.py lines 344-361
suggest_temperature(r) ==
    Max(100, Min(1000,
        700 + (IF r.redundancy_score > 600 THEN 100 ELSE 0)
            + (IF r.surprise_factor < 400 THEN 150 ELSE 0)
            - (IF r.coherence_score < 400 THEN 100 ELSE 0)
            + (IF r.complexity_score < 300 THEN 50 ELSE 0)))

\* context=None, or a dict with the recent responses and the pain level
NoContext == [is_none |-> TRUE, recent_responses |-> <<>>, pain_level |-> 500]
Context(recent, pain) ==
    [is_none |-> FALSE, recent_responses |-> recent, pain_level |-> pain]

\* Lines 380-405: the AnalysisResult of a response
AnalysisResult(prompt, response, context, history) ==
    LET recent == IF context.is_none THEN <<>> ELSE context.recent_responses
        scores ==
            [redundancy_score |-> analyze_redundancy(response),
             coherence_score |-> analyze_coherence(response),
             surprise_factor |-> calculate_surprise_factor(response, history),
             novelty_score |->
                 novelty_score(response,
                               IF recent # <<>> THEN recent ELSE history),
             complexity_score |-> analyze_complexity(response),
             emotional_depth |-> analyze_emotional_depth(response),
             trigger_creative |->
                 detect_creative_triggers(
                     prompt, IF context.is_none THEN 500
                                                ELSE context.pain_level)]
    IN  [redundancy_score |-> scores.redundancy_score,
         coherence_score |-> scores.coherence_score,
         surprise_factor |-> scores.surprise_factor,
         novelty_score |-> scores.novelty_score,
         complexity_score |-> scores.complexity_score,
         emotional_depth |-> scores.emotional_depth,
         feedback |-> generate_feedback(scores),
         suggested_temperature |-> suggest_temperature(scores),
         trigger_creative |-> scores.trigger_creative]

\* list[-50:] once the list holds more than 100 entries (lines 417-419)
Pruned(list) == IF Len(list) > 100 THEN LastN(list, 50) ELSE list

\* Lines 71-73 and 381-387: the elements of context['recent_responses']
\* are handed to difflib.SequenceMatcher as they are.  A context records
\* the Python type of these elements in `elements` when it is not str;
\* SequenceMatcher.ratio() takes the len() of each and raises TypeError on
\* an object that has none.
novelty_score_raises(context) ==
    /\ ~context.is_none
    /\ context.recent_responses # <<>>
    /\ Get(context, "elements", "str") # "str"

\* Mutant of analyze_response: only the response history is pruned.
analyze_response_PrunesResponses(prompt, response, context) ==
    IF novelty_score_raises(context)
    THEN /\ analyzed' = [prompt |-> prompt, response |-> response,
                         context |-> context, outcome |-> "raised"]
         /\ UNCHANGED <<response_history, analysis_history>>
    ELSE LET r == AnalysisResult(prompt, response, context, response_history)
         IN  /\ analyzed' = [prompt |-> prompt, response |-> response,
                             context |-> context, outcome |-> "returned"]
             /\ response_history' = Pruned(Append(response_history, response))
             /\ analysis_history' = Append(analysis_history, r)

\* Lines 363-421.  The exception of novelty_score leaves the call before
\* the response is stored.
analyze_response(prompt, response, context) ==
    IF novelty_score_raises(context)
    THEN /\ analyzed' = [prompt |-> prompt, response |-> response,
                         context |-> context, outcome |-> "raised"]
         /\ UNCHANGED <<response_history, analysis_history>>
    ELSE LET r == AnalysisResult(prompt, response, context, response_history)
         IN  /\ analyzed' = [prompt |-> prompt, response |-> response,
                             context |-> context, outcome |-> "returned"]
             /\ response_history' = Pruned(Append(response_history, response))
             /\ analysis_history' = Pruned(Append(analysis_history, r))

--------------------------------------------------------------------------
(* LLMWrapper *)

\* llm_wrapper.py lines 24-25
DEFAULT_MODEL == "gpt-4o-mini"
ALT_MODEL == "gpt-4o"

\* llm_wrapper.py lines 15-20: LLMConfig()
LLMConfig == [model |-> DEFAULT_MODEL, temperature |-> 900,
              max_tokens |-> 1000, top_p |-> 800]

\* llm_wrapper.py lines 192-201: the keys that are attributes are set, the
\* others are ignored
update_config(config, kwargs) ==
    [k \in DOMAIN config |-> IF k \in DOMAIN kwargs THEN kwargs[k]
                                                     ELSE config[k]]

\* llm_wrapper.py lines 28-39
pick_model(inner_state) ==
    IF Get(inner_state, "pain_level", 0) > 600 THEN ALT_MODEL
                                               ELSE DEFAULT_MODEL

\* llm_wrapper.py line 125: inner_state=None (an empty dict is as false as None)
NoInnerState == EmptyDict

\* llm_wrapper.py line 123: pain_score: float = 0.5
DefaultPainScore == 500

\* llm_wrapper.py lines 119-173: the request generate sends to
\* chat.completions.create
generate(config, pain_score, inner_state) ==
    LET given == DOMAIN inner_state # {}
    IN  [model |-> pick_model(IF given THEN inner_state
                                       ELSE [pain_level |-> pain_score]),
         temperature |-> IF given
                         THEN Get(inner_state, "temperature", config.temperature)
                         ELSE config.temperature,
         top_p |-> IF given THEN Get(inner_state, "top_p", config.top_p)
                            ELSE config.top_p,
         max_tokens |-> config.max_tokens,
         pain_score |-> pain_score]

\* main.py lines 128-145: the response of an interaction is generated
\* with the regulator's configuration, pain level and state
GenerateResponse ==
    /\ request' = [caller |-> "main"]
                    @@ generate(update_config(LLMConfig, get_current_llm_config),
                                state.pain_level, to_dict(state))

\* interface.py lines 160-180: the same without inner_state
GenerateInInterface ==
    /\ request' = [caller |-> "interface"]
                    @@ generate(update_config(LLMConfig, get_current_llm_config),
                                state.pain_level, NoInnerState)

\* creative_generator.py lines 44-77: the temperature added for each kind
KindBoost == [image |-> 200, code |-> 100, plan |-> 150, idea |-> 150]

\* creative_generator.py lines 13-18 and 21-78: generate(kind, topic,
\* state) asks a new LLMWrapper, configured with the temperature only, for
\* the content of the artifact: wrapper.generate(prompt)
GenerateArtifact(kind) ==
    /\ request' = [caller |-> "creative_generator"]
                    @@ generate(update_config(LLMConfig,
                                   [temperature |->
                                       Get(to_dict(state), "temperature", 900)
                                         + KindBoost[kind]]),
                                DefaultPainScore, NoInnerState)

--------------------------------------------------------------------------
(* EmotionalMemory *)

\* memory.py lines 94-103: the entry store_memory builds.  The artifact of
\* an interaction travels in metadata['artifact'] (main.py line 201).
MemoryEntry(prompt, response, reward, emotion, pain_score, artifact) ==
    [prompt |-> prompt, response |-> response, reward |-> reward,
     emotion |-> emotion, pain_score |-> pain_score, artifact |-> artifact]

\* memory.py line 41
max_size == 1000

\* memory.py lines 72-111.  The pruning of lines 108-109 starts beyond
\* max_size entries; the file written at line 111 holds the list itself.
store_memory(prompt, response, reward, emotion, pain_score, artifact) ==
    /\ Len(memories) < max_size
    /\ memories' = Append(memories, MemoryEntry(prompt, response, reward,
                                                emotion, pain_score, artifact))

\* memory.py lines 233-243: the entries themselves, not their responses
tail(n) == IF Len(memories) >= n THEN LastN(memories, n) ELSE memories

\* memory.py lines 275-286
get_recent_responses_for_analysis(count) ==
    [i \in 1..Len(tail(count)) |-> tail(count)[i].response]

\* memory.py lines 202-207
clear_memories == memories' = <<>>

--------------------------------------------------------------------------
(* SubjectiveJournal *)

\* The journal file is the sequence of its pieces of text and of its
\* '---' lines; the white space between them is not kept.  The header is
\* what _ensure_journal_exists writes (journal.py lines 60-63), an entry
\* what write_entry formats from its arguments (lines 97-113).
Piece(kind, emotion, reward, pain_score, prompt) ==
    [kind |-> kind, emotion |-> emotion, reward |-> reward,
     pain_score |-> pain_score, prompt |-> prompt]
Header == Piece("header", "", 0, 0, <<>>)
Separator == Piece("---", "", 0, 0, <<>>)
Entry(emotion, reward, pain_score, prompt) ==
    Piece("entry", emotion, reward, pain_score, prompt)

\* journal.py lines 65-117: the entry and the '---' line under it are
\* appended to the file
write_entry(emotion, reward, pain_score, prompt) ==
    /\ journal' = journal \o <<Entry(emotion, reward, pain_score, prompt),
                               Separator>>
    /\ journal_call' = [op |-> "write_entry",
                        entry |-> Entry(emotion, reward, pain_score, prompt)]

\* journal.py lines 227-232: the file is removed and made again
clear_journal ==
    /\ journal' = <<Header, Separator>>
    /\ journal_call' = [op |-> "clear_journal"]

\* journal.py line 206: content.split('---'), each part being the pieces
\* of text between two '---' lines (none when only white space is there)
RECURSIVE Split(_)
Split(content) ==
    IF content = <<>> THEN << <<>> >>
    ELSE LET before == Split(SubSeq(content, 1, Len(content) - 1))
             x      == content[Len(content)]
         IN  IF x.kind = "---" THEN Append(before, <<>>)
             ELSE [before EXCEPT ![Len(before)] = Append(@, x)]

\* journal.py lines 197-207: entries[-count:] without the parts that are
\* white space only (entries[-0:] is the whole list)
get_recent_entries(count) ==
    LET entries == Split(journal)
        chosen  == IF count = 0 THEN entries ELSE LastN(entries, count)
    IN  SelectSeq(chosen, LAMBDA part : part # <<>>)

--------------------------------------------------------------------------
(* CravingAICore *)

\* creative_generator.py lines 81-100
detect_kind(prompt) ==
    IF {"code", "programme", "algorithm", "fonction"} \cap WordSet(prompt) # {}
    THEN "code"
    ELSE IF {"image", "dessin", "illustration", "visuel"}
                \cap WordSet(prompt) # {}
    THEN "image"
    ELSE IF {"plan", "stratégie", "méthode", "approche"}
                \cap WordSet(prompt) # {}
    THEN "plan"
    ELSE "idea"

\* main.py lines 152-155: the context handed to the analyzer; its recent
\* responses are memory.tail(3), a list of MemoryEntry objects
CoreContext ==
    [is_none |-> FALSE, recent_responses |-> tail(3),
     pain_level |-> state.pain_level, elements |-> "MemoryEntry"]

\* The steps of _process_interaction, in the order of main.py lines
\* 138-212
StepsDone(creative) ==
    <<"generate", "analyze", "score">>
        \o (IF creative THEN <<"create">> ELSE <<>>)
        \o <<"update", "store", "journal">>

\* main.py lines 123-217: _process_interaction(prompt), the model having
\* answered `response` and, when an artifact is asked for, a content of
\* `content_length` characters; w is the outcome of the regulator's write.
\* An exception of a step is caught at line 216 and ends the interaction
\* there.  The request kept is the last one sent.
process_interaction(prompt, response, content_length, w) ==
    LET creative == detect_creative_triggers(prompt, state.pain_level)
        kind     == detect_kind(prompt)
        artifact == IF creative THEN Artifact(kind, content_length)
                                ELSE NoArtifact
    IN  /\ analyze_response(prompt, response, CoreContext)
        /\ IF novelty_score_raises(CoreContext)
           THEN /\ GenerateResponse
                /\ trail' = <<"generate">>
                /\ UNCHANGED <<regVars, engVars, memories, journal,
                               journal_call>>
           ELSE /\ calculate_reward(prompt, response, NoArtifact)
                /\ IF result'.outcome = "raised"
                   THEN /\ GenerateResponse
                        /\ trail' = <<"generate", "analyze">>
                        /\ UNCHANGED <<regVars, memories, journal,
                                       journal_call>>
                   ELSE LET reward == result'.reward
                                        + bonus_creation(artifact)
                            emotion == result'.emotion_tag
                            true_pain == result'.pain_level
                        IN  /\ IF creative THEN GenerateArtifact(kind)
                                           ELSE GenerateResponse
                            /\ update_from_interaction(reward, true_pain, w)
                            /\ store_memory(prompt, response, reward,
                                            emotion, true_pain, artifact)
                            /\ write_entry(emotion, reward, true_pain,
                                           prompt)
                            /\ trail' = StepsDone(creative)

\* main.py lines 259-269, the answer being yes
reset_system(w) ==
    /\ clear_memories
    /\ clear_journal
    /\ force_reset(w)

--------------------------------------------------------------------------
(* Specifications of the regulator *)

MaxUpdates == 4          \* updates explored by Spec
MaxInRange == 9          \* updates explored by SpecInRange
MaxLongRun == 102        \* updates explored by SpecLong
MaxWriteFailures == 1    \* failed writes explored

\* Arguments tried.  Spec passes rewards and pain scores inside and outside
\* their documented ranges, SpecInRange pain scores of [0,1] only.
Rewards == {-3000, 500, 3000}
PainScores == {-1000, 100, 900, 2000}
RewardsInRange == {-1000, 1000}
PainScoresInRange == {100, 900, 1000}

\* A regulator constructed on a storage that holds no file.
Init ==
    /\ state = HomeostaticState
    /\ reward_history = <<>>
    /\ pain_history = <<>>
    /\ adjustment_log = <<>>
    /\ adjustments = EmptyDict
    /\ disk = Document(SaveData(HomeostaticState, <<>>, <<>>, <<>>, 0))
    /\ now = 0
    /\ last = [op |-> "init", write |-> "ok"]
    /\ write_failures = 0
    /\ memory_responses = <<>>
    /\ call = [prompt |-> <<>>, response |-> <<>>, artifact |-> NoArtifact]
    /\ result = [outcome |-> "none"]
    /\ response_history = <<>>
    /\ analysis_history = <<>>
    /\ analyzed = [prompt |-> <<>>, response |-> <<>>, context |-> NoContext,
                   outcome |-> "none"]
    /\ request = [caller |-> "none"]
    /\ memories = <<>>
    /\ journal = <<Header, Separator>>
    /\ journal_call = [op |-> "init"]
    /\ trail = <<>>

WriteAllowed(w) == w = "ok" \/ write_failures < MaxWriteFailures

UpdateIn(RS, PS, bound) ==
    \E r \in RS, p \in PS, w \in WriteOutcomes :
        /\ now < bound
        /\ WriteAllowed(w)
        /\ update_from_interaction(r, p, w)
        /\ UNCHANGED <<engVars, anaVars, llmVars, orchVars>>

Update == UpdateIn(Rewards, PainScores, MaxUpdates)

\* SpecInRange and SpecLong: every write succeeds.
UpdateInRange ==
    \E r \in RewardsInRange, p \in PainScoresInRange :
        /\ now < MaxInRange
        /\ update_from_interaction(r, p, "ok")
        /\ UNCHANGED <<engVars, anaVars, llmVars, orchVars>>

UpdateLong ==
    /\ now < MaxLongRun
    /\ update_from_interaction(1000, 900, "ok")
    /\ UNCHANGED <<engVars, anaVars, llmVars, orchVars>>

Reset ==
    \E w \in WriteOutcomes :
        WriteAllowed(w) /\ force_reset(w)
            /\ UNCHANGED <<engVars, anaVars, llmVars, orchVars>>

Restart ==
    \E w \in WriteOutcomes :
        WriteAllowed(w) /\ Construct(w)
            /\ UNCHANGED <<engVars, anaVars, llmVars, orchVars>>

Next == Update \/ Reset \/ Restart

Spec == Init /\ [][Next]_vars

ResetOk == force_reset("ok")
    /\ UNCHANGED <<engVars, anaVars, llmVars, orchVars>>

RestartOk == Construct("ok")
    /\ UNCHANGED <<engVars, anaVars, llmVars, orchVars>>

NextInRange == UpdateInRange \/ ResetOk \/ RestartOk

SpecInRange == Init /\ [][NextInRange]_vars

\* SpecRuns: the states reachable from the default state by updates with
\* pain scores in [0,1] alone.
NextRuns == UpdateInRange

SpecRuns == Init /\ [][NextRuns]_vars

NextLong == UpdateLong \/ ResetOk \/ RestartOk

SpecLong == Init /\ [][NextLong]_vars

\* SpecStartup: between two runs the state file is removed, damaged or
\* replaced by a document of another shape, and a regulator is constructed
\* on what is found.  Every write succeeds.
NoStateEntry == Document([reward_history |-> <<>>, last_update |-> 0])

UnknownField == Document([state |-> [pain_level |-> 900, mood |-> 100],
                          reward_history |-> <<>>, pain_history |-> <<>>,
                          adjustment_log |-> <<>>, last_update |-> 0])

BadFiles == {Absent, Corrupt, NoStateEntry, UnknownField}

Running == last.op \notin {"stopped", "raised"}

UpdateStarted ==
    \E r \in RewardsInRange, p \in PainScoresInRange :
        /\ Running
        /\ now < MaxUpdates
        /\ update_from_interaction(r, p, "ok")
        /\ UNCHANGED <<engVars, anaVars, llmVars, orchVars>>

ReplaceFile ==
    \E d \in BadFiles :
        /\ last.op # "stopped"
        /\ disk' = d
        /\ last' = [op |-> "stopped", write |-> "none"]
        /\ UNCHANGED <<state, reward_history, pain_history, adjustment_log,
                       adjustments, now, write_failures>>
        /\ UNCHANGED <<engVars, anaVars, llmVars, orchVars>>

NextStartup == UpdateStarted \/ ReplaceFile \/ RestartOk

SpecStartup == Init /\ [][NextStartup]_vars

--------------------------------------------------------------------------
(* Specifications of the reward engine *)

MaxCalls == 3            \* responses remembered in SpecEngine
GridPoints == 20         \* steps of the novelty and relevance grid

\* Texts tried: the empty string, a stop word alone, plain words, words of
\* the pain and joy lists, with partial overlaps between them.
Responses ==
    {<<>>, <<"the">>, <<"ab">>, <<"ab", "cd">>, <<"ab", "ab", "cd">>,
     <<"douleur", "ab">>, <<"joie", "ab">>, <<"ab", "cd", "douleur">>}

Prompts == {<<"ab", "cd">>, <<"the">>}

Artifacts ==
    {NoArtifact, Artifact("", 30), Artifact("poem", 10), Artifact("poem", 101)}

\* SpecEngine: one engine, calls with texts
CalculateReward ==
    \E p \in Prompts, r \in Responses, a \in Artifacts :
        /\ Len(memory_responses) < MaxCalls
        /\ calculate_reward(p, r, a)
        /\ UNCHANGED <<regVars, anaVars, llmVars, orchVars>>

NextEngine == CalculateReward

SpecEngine == Init /\ [][NextEngine]_vars

\* SpecHistory: one engine, calls whose responses repeat earlier ones, up
\* to a history longer than five entries
MaxHistory == 7          \* calls explored by SpecHistory

RepeatedResponses == {<<"ab">>, <<"cd">>, <<"ef", "cd">>}

CalculateRewardAgain ==
    \E r \in RepeatedResponses :
        /\ Len(memory_responses) < MaxHistory
        /\ calculate_reward(<<"ab", "cd">>, r, NoArtifact)
        /\ UNCHANGED <<regVars, anaVars, llmVars, orchVars>>

NextHistory == CalculateRewardAgain

SpecHistory == Init /\ [][NextHistory]_vars

--------------------------------------------------------------------------
(* Specification of the generation requests *)

\* SpecGeneration: between the updates of the regulator the orchestrators
\* generate responses (main.py, interface.py) and, when the creative
\* trigger fires on the prompt or on the pain level (main.py lines
\* 150-169), artifacts.  Every write succeeds.
TriggerPrompts == {<<"ab">>, <<"crée", "ab">>}

RespondInMain == GenerateResponse
    /\ UNCHANGED <<regVars, engVars, anaVars, orchVars>>

RespondInInterface ==
    GenerateInInterface /\ UNCHANGED <<regVars, engVars, anaVars, orchVars>>

CreateArtifact ==
    \E p \in TriggerPrompts, kind \in DOMAIN KindBoost :
        /\ detect_creative_triggers(p, state.pain_level)
        /\ GenerateArtifact(kind)
        /\ UNCHANGED <<regVars, engVars, anaVars, orchVars>>

UpdateBetween ==
    \E r \in RewardsInRange, p \in PainScoresInRange :
        /\ now < MaxUpdates
        /\ update_from_interaction(r, p, "ok")
        /\ UNCHANGED <<engVars, anaVars, llmVars, orchVars>>

NextGeneration ==
    RespondInMain \/ RespondInInterface \/ CreateArtifact \/ UpdateBetween

SpecGeneration == Init /\ [][NextGeneration]_vars

--------------------------------------------------------------------------
(* Specification of the analyzer *)

MaxAnalyses == 3         \* responses analysed in SpecAnalyzer

\* Texts analysed: the empty string, a sentence end alone, single words,
\* short sentences with connector, transition and repeated long words, a
\* text of more than ten words.
AnalysedResponses ==
    {<<>>, <<".">>, <<"ab">>, <<"ab", "cd">>,
     <<"je", "profond", "pourquoi">>,
     <<"donc", "ensuite", "profond", ".", "ainsi", "puis", "profond">>,
     <<"donc", "ensuite", "puis", "enfin", ".",
       "donc", "ensuite", "puis", "enfin">>,
     <<"quoique", "ab", ".", "cool", "ab", ".", "donc", "ab", "ab", "cd",
       "ab", "cd">>}

AnalysedPrompts == {<<>>, <<"crée", "ab">>}

Contexts == {NoContext, Context(<<>>, 600), Context(<<<<"ab">>>>, 100)}

AnalyzeResponse ==
    \E p \in AnalysedPrompts, r \in AnalysedResponses, c \in Contexts :
        /\ Len(response_history) < MaxAnalyses
        /\ analyze_response(p, r, c)
        /\ UNCHANGED <<regVars, engVars, llmVars, orchVars>>

NextAnalyzer == AnalyzeResponse

SpecAnalyzer == Init /\ [][NextAnalyzer]_vars

\* SpecDegenerate: the analyzer and the reward engine are given the same
\* prompt and response, as _process_interaction gives them, the texts
\* being empty, a single word, or without a word the vectorizer indexes.
DegenerateResponses == {<<>>, <<".">>, <<"the">>, <<"ab">>, <<"ab", "cd">>}

DegeneratePrompts == {<<>>, <<"ab", "cd">>}

AnalyzeAndScore ==
    \E p \in DegeneratePrompts, r \in DegenerateResponses :
        /\ Len(response_history) < MaxCalls
        /\ analyze_response(p, r, NoContext)
        /\ calculate_reward(p, r, NoArtifact)
        /\ UNCHANGED <<regVars, llmVars, orchVars>>

NextDegenerate == AnalyzeAndScore

SpecDegenerate == Init /\ [][NextDegenerate]_vars

--------------------------------------------------------------------------
(* Specification of a long run of the reward engine *)

MaxOthers == 1           \* analyses and updates beside the long runs

\* SpecEngineLong: one engine scoring response after response, past its
\* limit of 50 remembered responses, with an analyzer and a regulator in
\* the same process.  The first response is one of FirstResponses, the
\* later ones follow LongResponses in turn.
FirstResponses == {<<"ab">>, <<"ab", "cd">>, <<"joie", "ab">>}

LongResponses == <<<<"ab", "cd">>, <<"cd", "ef">>, <<"ef", "gh">>>>

NextResponse(n) ==
    IF n = 0 THEN FirstResponses ELSE {LongResponses[(n % 3) + 1]}

CalculateRewardLong ==
    \E r \in NextResponse(Len(memory_responses)) :
        /\ calculate_reward(<<"ab", "cd">>, r, NoArtifact)
        /\ UNCHANGED <<regVars, anaVars, llmVars, orchVars>>

AnalyzeBeside ==
    /\ Len(response_history) < MaxOthers
    /\ analyze_response(<<"ab", "cd">>, <<"ab", "cd">>, NoContext)
    /\ UNCHANGED <<regVars, engVars, llmVars, orchVars>>

UpdateBeside ==
    \E p \in {100, 900} :
        /\ now < MaxOthers
        /\ update_from_interaction(1000, p, "ok")
        /\ UNCHANGED <<engVars, anaVars, llmVars, orchVars>>

NextEngineLong == CalculateRewardLong \/ AnalyzeBeside \/ UpdateBeside

SpecEngineLong == Init /\ [][NextEngineLong]_vars

--------------------------------------------------------------------------
(* Specification of a long run of the analyzer *)

\* SpecAnalyzerLong: one analyzer analysing response after response, past
\* its limit of 100 responses.  The first response is one of
\* FirstAnalysed, the later ones follow AnalysedInTurn.
FirstAnalysed == {<<"ab">>, <<"ab", "cd">>, <<"cool", "ab">>}

AnalysedInTurn ==
    <<<<"donc", "ab">>, <<"ab", ".", "cd">>, <<"profond", "ab", "cd">>>>

NextAnalysed(n) ==
    IF n = 0 THEN FirstAnalysed ELSE {AnalysedInTurn[(n % 3) + 1]}

AnalyzeLong ==
    \E r \in NextAnalysed(Len(response_history)) :
        /\ analyze_response(<<"ab", "cd">>, r, NoContext)
        /\ UNCHANGED <<regVars, engVars, llmVars, orchVars>>

NextAnalyzerLong == AnalyzeLong

SpecAnalyzerLong == Init /\ [][NextAnalyzerLong]_vars

--------------------------------------------------------------------------
(* Specification of the orchestration loop *)

\* SpecCore: the loop of interactive_mode (main.py lines 81-121) on a new
\* installation: prompts that are not empty, each processed by
\* _process_interaction, and the reset command.  Every write succeeds.
CorePrompts == {<<"ab", "cd">>, <<"crée", "ab">>, <<"crée", "code">>}

CoreResponses == {<<>>, <<"ab", "cd">>, <<"joie", "ab">>, <<"ef", "gh">>}

ContentLengths == {0, 30, 120}

ProcessInteraction ==
    \E p \in CorePrompts, r \in CoreResponses, n \in ContentLengths :
        /\ now < MaxUpdates
        /\ Len(response_history) < MaxCalls
        /\ process_interaction(p, r, n, "ok")

ResetSystem ==
    /\ reset_system("ok")
    /\ UNCHANGED <<adjustments, engVars, anaVars, llmVars, trail>>

NextCore == ProcessInteraction \/ ResetSystem

SpecCore == Init /\ [][NextCore]_vars

--------------------------------------------------------------------------
(* Specification of the journal *)

MaxEntries == 3          \* entries written in SpecJournal

Emotions == {"curiosity", "pain", "joy"}

Moods == {<<600, 300>>, <<-600, 800>>}

\* SpecJournal: one journal, entries written and the journal cleared
WriteEntry ==
    \E e \in Emotions, m \in Moods :
        /\ Len(journal) < 2 + 2 * MaxEntries
        /\ write_entry(e, m[1], m[2], <<"ab">>)
        /\ UNCHANGED <<regVars, engVars, anaVars, llmVars, memories, trail>>

ClearJournal ==
    /\ clear_journal
    /\ UNCHANGED <<regVars, engVars, anaVars, llmVars, memories, trail>>

NextJournal == WriteEntry \/ ClearJournal

SpecJournal == Init /\ [][NextJournal]_vars

\* SpecFormula: the reward computed from metrics drawn from a grid of
\* [0,1], the points next to the gate included, for every emotion tag that
\* _detect_emotional_intensity returns and artifacts of every bonus step.
Grid == {(1000 * i) \div GridPoints : i \in 0..GridPoints}

Novelties == Grid \cup {NoveltyGate - 1, NoveltyGate, NoveltyGate + 1}

Tags == {EmotionOrder[i] : i \in DOMAIN EmotionOrder}

BonusArtifacts ==
    {NoArtifact, Artifact("", 30), Artifact("poem", 0)}
    \cup {Artifact("poem", n) : n \in {20, 21, 50, 51, 100, 101}}

\* Each behaviour scores one draw.
ScoreMetrics ==
    \E n \in Novelties, r \in Grid, t \in Tags, a \in BonusArtifacts :
        /\ result.outcome = "none"
        /\ result' = Returned(n, r, 0, t, 300, a)
        /\ call' = [call EXCEPT !.artifact = a]
        /\ UNCHANGED memory_responses
        /\ UNCHANGED <<regVars, anaVars, llmVars, orchVars>>

NextFormula == ScoreMetrics

SpecFormula == Init /\ [][NextFormula]_vars

--------------------------------------------------------------------------
(* Claims about the regulator *)

InUnit(x) == 0 <= x /\ x <= 1000

\* C1 (as stated): after every update_from_interaction, whatever reward
\* and pain_score are passed, each of the five drive fields is in [0,1].
\* The code clamps satisfaction_level and creativity_drive but not
\* pain_level: a pain_score of 2.0 on the default state gives 1.1.
C1_DrivesInUnitAfterUpdate ==
    last.op = "update" => \A k \in DriveFields : InUnit(state[k])

\* C2: in every state reachable from the default state by updates and
\* resets, temperature is in [0.1,1.3], top_p in [0,1] and both penalties
\* are >= 0.
C2_SamplingParametersInRange ==
    /\ 100 <= state.temperature /\ state.temperature <= 1300
    /\ InUnit(state.top_p)
    /\ state.frequency_penalty >= 0
    /\ state.presence_penalty >= 0

\* An update has driven temperature and top_p to their caps.
C2_Witness ==
    /\ last.op = "update"
    /\ state.temperature = 1300
    /\ state.top_p = 1000
    /\ "top_p" \in DOMAIN adjustments

\* C3: from any state reached by updates with pain scores in [0,1], an
\* update with pain_score 0.9 never lowers the temperature nor takes it
\* above 1.3, and an update with pain_score 0.1 never raises it nor takes
\* it below 0.7.
C3_TemperatureMonotoneInRuns ==
    [][(last'.op = "update" /\ now' = now + 1) =>
         /\ last'.pain_score = 900 =>
               /\ state'.temperature >= state.temperature
               /\ state'.temperature <= 1300
         /\ last'.pain_score = 100 =>
               /\ state'.temperature <= state.temperature
               /\ state'.temperature >= 700]_vars

\* An update with pain_score 0.1 that still took the high-pain branch: the
\* smoothed pain stayed above 0.6, the case in which the temperature could
\* have risen had it not been at its cap.
C3_Witness ==
    /\ last.op = "update"
    /\ last.pain_score = 100
    /\ state.pain_level > pain_threshold_high

\* C8 (as stated): after force_reset the configuration and the drives are
\* the defaults, the three logs are empty, and the persisted record holds
\* the same default state and empty logs.
C8_ResetRestoresAndPersists ==
    last.op = "reset" =>
        /\ get_current_llm_config =
              [temperature |-> 900, top_p |-> 800,
               frequency_penalty |-> 0, presence_penalty |-> 0]
        /\ state.pain_level = 500 /\ state.satisfaction_level = 500
        /\ state.creativity_drive = 700 /\ state.exploration_tendency = 600
        /\ state.stability_need = 400
        /\ Len(reward_history) = 0 /\ Len(pain_history) = 0
        /\ Len(adjustment_log) = 0
        /\ disk.kind = "document"
        /\ disk.data.state = state
        /\ Len(disk.data.reward_history) = 0
        /\ Len(disk.data.pain_history) = 0
        /\ Len(disk.data.adjustment_log) = 0

\* C8 (amended): the same, the persisted record holding the defaults and
\* empty logs when the write of the reset succeeded.
C8_ResetRestores ==
    last.op = "reset" =>
        /\ get_current_llm_config =
              [temperature |-> 900, top_p |-> 800,
               frequency_penalty |-> 0, presence_penalty |-> 0]
        /\ state.pain_level = 500 /\ state.satisfaction_level = 500
        /\ state.creativity_drive = 700 /\ state.exploration_tendency = 600
        /\ state.stability_need = 400
        /\ Len(reward_history) = 0 /\ Len(pain_history) = 0
        /\ Len(adjustment_log) = 0
        /\ last.write = "ok" =>
              /\ disk.kind = "document"
              /\ disk.data.state = state
              /\ Len(disk.data.reward_history) = 0
              /\ Len(disk.data.pain_history) = 0
              /\ Len(disk.data.adjustment_log) = 0

\* A reset that followed at least two updates and whose write succeeded.
C8_Witness ==
    /\ last.op = "reset"
    /\ last.write = "ok"
    /\ now >= 2
    /\ disk.data.last_update >= 2

\* C9: after an update or a reset whose write succeeded the file holds a
\* loadable document whose state, read back by from_dict, is the state in
\* memory; and a regulator constructed from a loadable file holds the
\* state read from it.
C9_WriteThroughRoundTrip ==
    /\ (last.op \in {"update", "reset"} /\ last.write = "ok") =>
          /\ Loadable(disk)
          /\ ~from_dict_raises(disk.data.state)
          /\ from_dict(disk.data.state) = state
    /\ last.op = "load" =>
          /\ Loadable(disk)
          /\ state = from_dict(disk.data.state)

\* A regulator constructed from a file that an update wrote: it starts
\* with sampling parameters and drives that are not the defaults.
C9_Witness ==
    /\ last.op = "load"
    /\ state.temperature # 900
    /\ state.top_p # 800
    /\ state.pain_level # 500
    /\ state.creativity_drive # 700

\* C10 (as stated): after every update the reward and pain histories hold
\* at most 100 records and the adjustment log at most 50, in memory as
\* well as in the persisted copy.  _save_state slices the lists it writes
\* and never the lists it keeps.
C10_LogsBounded ==
    last.op = "update" =>
        /\ Len(reward_history) <= RewardRetention
        /\ Len(pain_history) <= RewardRetention
        /\ Len(adjustment_log) <= AdjustRetention
        /\ last.write = "ok" =>
              /\ Len(disk.data.reward_history) <= RewardRetention
              /\ Len(disk.data.pain_history) <= RewardRetention
              /\ Len(disk.data.adjustment_log) <= AdjustRetention

\* C12: a failed write during update_from_interaction or force_reset is
\* not fatal: the call returns (the update with its adjustments), the
\* state and the logs in memory are those a successful write leaves, and
\* every later update starts from them.  Only an update moves the clock.
C12_WriteFailureNotFatal ==
    [][/\ now' = now + 1 =>
             /\ last'.op = "update"
             /\ state' = UpdatedState(state, last'.reward, last'.pain_score)
             /\ adjustments' =
                   UpdateAdjustments(state, last'.reward, last'.pain_score)
             /\ reward_history' = Append(reward_history, [timestamp |-> now])
             /\ pain_history' = Append(pain_history, [timestamp |-> now])
             /\ adjustment_log' = Append(adjustment_log,
                                      AdjustmentRecord(now, adjustments'))
       /\ last'.op = "reset" =>
             /\ state' = HomeostaticState
             /\ reward_history' = <<>>
             /\ pain_history' = <<>>
             /\ adjustment_log' = <<>>
      ]_vars

\* An update whose write failed returned a temperature adjustment, after
\* an earlier update; the file does not hold the state in memory.
C12_Witness ==
    /\ last.op = "update"
    /\ last.write # "ok"
    /\ "temperature" \in DOMAIN adjustments
    /\ Len(reward_history) >= 2
    /\ (disk.kind = "document" => disk.data.state # state)

\* x lies strictly between a and b
StrictlyBetween(x, a, b) == Min(a, b) < x /\ x < Max(a, b)

RecordedParameters == {"temperature", "top_p", "creativity_drive"}

\* C14 (as stated): every change an update applies to temperature, top_p
\* or creativity_drive is in that update's adjustment record with the
\* value before as 'old' and the value after as 'new', and no record
\* exists for a parameter that did not change.  The high-pain branch
\* raises creativity_drive (line 157) without an entry in adjustments.
C14_EveryChangeRecorded ==
    [][now' = now + 1 =>
          \A k \in RecordedParameters :
              (state'[k] # state[k]) <=>
                  /\ k \in DOMAIN adjustments'
                  /\ adjustments'[k] = [old |-> state[k], new |-> state'[k]]
      ]_vars

\* The file found at startup is one of the bad files of the claim.
BadFileFound == last.op = "stopped" /\ last'.op # "stopped"

\* C11 (as stated): constructing a regulator never fails on a bad state
\* file: when the file is missing or malformed (no JSON, no 'state' entry,
\* a 'state' entry that does not match the schema) the regulator starts in
\* the default state with three empty logs and writes that default state
\* to storage.  A 'state' entry with a key that is no field raises a
\* TypeError that _load_state does not catch.
C11_BadFileStartsDefault ==
    [][BadFileFound =>
          /\ last'.op = "init"
          /\ state' = HomeostaticState
          /\ reward_history' = <<>>
          /\ pain_history' = <<>>
          /\ adjustment_log' = <<>>
          /\ disk' = Document(SaveData(HomeostaticState, <<>>, <<>>, <<>>, now))
      ]_vars

--------------------------------------------------------------------------
(* Claims about the reward engine *)

Gated == result.outcome = "returned"
         /\ result.metrics.novelty_score < NoveltyGate

NotGated == result.outcome = "returned"
            /\ result.metrics.novelty_score >= NoveltyGate

\* C4: whenever the novelty calculate_reward computed is below 0.35, the
\* reward returned is exactly -1.0 and the tag is "douleur accablante",
\* whatever the relevance, the emotion words and the artifact.
C4_GateIsHard ==
    Gated => /\ result.reward = -1000
             /\ result.emotion_tag = "douleur accablante"

\* A gated call whose response holds a word of the joy list, is relevant
\* to the prompt and comes with an artifact worth the largest bonus.
C4_Witness ==
    /\ Gated
    /\ EmotionCount("joy", call.response) > 0
    /\ result.metrics.relevance_score > 0
    /\ bonus_creation(call.artifact) = 400

\* C5 (as stated): a call whose response is identical to the response
\* recorded by the call just before computes novelty < 0.35 and returns
\* reward -1.0.  A response without an indexed word (only stop words or
\* one-letter tokens) has a zero row: its cosine with every remembered
\* response is 0 and its novelty 1.0.
C5_RepeatedResponseIsGated ==
    (/\ result.outcome = "returned"
     /\ Len(memory_responses) >= 2
     /\ memory_responses[Len(memory_responses)]
           = memory_responses[Len(memory_responses) - 1])
    => /\ result.metrics.novelty_score < NoveltyGate
       /\ result.reward = -1000

\* Arguments of gated calls the reward of a call is compared with
GatedNovelties == {n \in Novelties : n < NoveltyGate}
ComparedRelevances == {0, 500, 1000}
ComparedArtifacts == {NoArtifact, Artifact("poem", 101)}

\* C6: a response that is not gated receives a strictly higher reward and
\* a strictly lower pain level than every gated response, whatever the
\* relevance, the tag and the artifact of either; it never receives -1.0.
C6_GatedStrictlyWorse ==
    NotGated =>
        /\ result.reward > -1000
        /\ \A n \in GatedNovelties, r \in ComparedRelevances,
              t \in Tags, a \in ComparedArtifacts :
              /\ FinalReward(n, r, t, a) < result.reward
              /\ PainLevel(FinalReward(n, r, t, a)) > result.pain_level

\* The non-gated call with the lowest reward: novelty at the gate, no
\* relevance, a pain tag, no bonus.
C6_Witness ==
    /\ NotGated
    /\ result.metrics.novelty_score = NoveltyGate
    /\ result.metrics.relevance_score = 0
    /\ result.emotion_tag = "pain"
    /\ bonus_creation(call.artifact) = 0
    /\ result.reward < -900

\* C7: every reward returned is in [-1,1], every pain level in [0,1], and
\* pain_level = 1 - (reward + 1)/2.
C7_RewardAndPainRanges ==
    result.outcome = "returned" =>
        /\ -1000 <= result.reward /\ result.reward <= 1000
        /\ 0 <= result.pain_level /\ result.pain_level <= 1000
        /\ 2 * result.pain_level = 1000 - result.reward

\* A call whose weighted sum, bonus and joy adjustment pass 1.0 before the
\* normalisation: the reward is held at 1.0 and the pain level at 0.
C7_Witness ==
    /\ NotGated
    /\ result.metrics.novelty_score = 1000
    /\ result.metrics.relevance_score = 1000
    /\ result.emotion_tag = "joy"
    /\ bonus_creation(call.artifact) = 400
    /\ result.reward = 1000
    /\ result.pain_level = 0

\* The response holds no word of the five emotion-word lists.
NoEmotionWord(response) ==
    \A i \in DOMAIN EmotionOrder : EmotionCount(EmotionOrder[i], response) = 0

\* C15 (as stated): when the response holds no word of any emotion-word
\* list, emotion detection returns the neutral tag with intensity 0 and
\* calculate_reward applies neither the -0.2 nor the +0.1 adjustment.  The
\* tag is seen in the result of a call that is not gated.  The dict of
\* counts always has its five keys, so line 127 never returns "neutre":
\* max over five zero counts returns the first key, 'joy'.
C15_NoEmotionWordIsNeutral ==
    (NotGated /\ NoEmotionWord(call.response)) =>
        /\ result.emotion_tag = "neutre"
        /\ result.metrics.emotional_intensity = 0
        /\ result.reward =
              BlendedReward(result.metrics.novelty_score,
                            result.metrics.relevance_score,
                            "neutre", call.artifact)

\* The history the last call compared its response with
PriorHistory == SubSeq(memory_responses, 1, Len(memory_responses) - 1)

\* The response is an entry recorded more than 5 calls earlier and differs
\* from each of the last 5 entries.
RepeatsOlderEntryOnly(response, history) ==
    /\ \E i \in 1..(Len(history) - 5) : history[i] = response
    /\ \A i \in (Len(history) - 4)..Len(history) : history[i] # response

\* C16 (as stated): novelty compares the response only with the last 5
\* (or fewer) entries of the history: a response identical to an entry
\* recorded more than 5 calls earlier and different from each of the last
\* 5 is gated only if the last 5 gate it; with an empty history novelty is
\* 1.0.  Line 57 fits the vectorizer on every remembered response.
C16_NoveltyWindow ==
    result.outcome = "returned" =>
        /\ PriorHistory = <<>> => result.metrics.novelty_score = 1000
        /\ RepeatsOlderEntryOnly(call.response, PriorHistory) =>
              (Gated <=>
                  calculate_novelty_strict(call.response,
                                           LastN(PriorHistory, 5))
                     < NoveltyGate)

\* The last call returned and found the history empty.
FirstCallReturned == result.outcome = "returned" /\ Len(memory_responses) = 1

PainTags == {"pain", "frustration"}

\* C19: on an engine with an empty history a call that returns computed
\* novelty 1.0, never returns the crushing-pain tag, and returns a reward
\* > 0 when its tag is not pain or frustration; so does the formula for
\* every relevance in [0,1], every such tag and every artifact.
C19_FreshEngineRewardsPositive ==
    FirstCallReturned =>
        /\ result.metrics.novelty_score = 1000
        /\ result.emotion_tag # CrushingPain
        /\ result.emotion_tag \notin PainTags => result.reward > 0
        /\ \A r \in Grid, t \in Tags \ PainTags, a \in BonusArtifacts :
              FinalReward(1000, r, t, a) > 0

\* A first call whose response has nothing in common with the prompt and
\* comes without an artifact: relevance 0, no bonus.
C19_Witness ==
    /\ FirstCallReturned
    /\ result.emotion_tag \notin PainTags
    /\ result.metrics.relevance_score = 0
    /\ bonus_creation(call.artifact) = 0
    /\ result.reward < 500

\* C17 (as stated): no core operation raises on degenerate text: for an
\* empty response, an empty prompt, a single word or a text without usable
\* vocabulary, analyze_response and calculate_reward both return a result,
\* at any history length, and record the response in their histories.
\* calculate_reward raises ValueError on the empty response (math.log2(0),
\* line 106) and on texts that leave the vectorizer an empty vocabulary.
C17_NoRaiseOnDegenerateText ==
    response_history # <<>> =>
        /\ Len(analysis_history) = Len(response_history)
        /\ response_history[Len(response_history)] = analyzed.response
        /\ result.outcome = "returned"
        /\ memory_responses # <<>>
        /\ memory_responses[Len(memory_responses)] = call.response

--------------------------------------------------------------------------
(* Claims about the analyzer *)

\* The AnalysisResult of the last analyze_response
LastAnalysis == analysis_history[Len(analysis_history)]

BoundedScores == {"redundancy_score", "coherence_score", "surprise_factor",
                  "novelty_score", "complexity_score", "emotional_depth"}

\* C18 (as stated): every bounded score of the AnalysisResult returned by
\* analyze_response lies in [0,1], the coherence score in particular, for
\* any number of sentences and of connector and transition words per
\* sentence.  transition_score (lines 153-155) has no min(1.0, .): two
\* sentences with three transition words each give 0.3 * 3 = 0.9 before
\* the connector and cohesion terms.
C18_ScoresInUnit ==
    analysis_history # <<>> =>
        \A k \in BoundedScores : InUnit(LastAnalysis[k])

--------------------------------------------------------------------------
(* Claims about the generation requests *)

\* C20 (as stated): every generation request issued while the regulator's
\* pain_level is > 0.6 uses the higher-capability model and every request
\* issued while it is <= 0.6 the default model; so does the generation
\* that follows an update which took the high-pain branch.  call_llm of
\* creative_generator calls generate(prompt) with the default pain_score
\* 0.5 and no inner_state: an artifact is always asked of the default
\* model.
C20_ModelFollowsPain ==
    [][request' # request =>
          /\ state.pain_level > 600 => request'.model = ALT_MODEL
          /\ state.pain_level <= 600 => request'.model = DEFAULT_MODEL
      ]_vars

--------------------------------------------------------------------------
(* Claims about the orchestration loop and the journal *)

\* C21: in the orchestration loop every accepted prompt, the first one
\* and every later one, is fully processed: its response is analyzed,
\* scored, applied to the regulator by one update_from_interaction, stored
\* in memory and written to the journal, in that order; no interaction
\* stops before it has reached the regulator.  From the second interaction
\* on, memory.tail(3) hands MemoryEntry objects to the analyzer, whose
\* novelty_score raises; the exception is caught at main.py line 216 and
\* the interaction ends after the generation.  (Empty responses, on which
\* the reward engine raises whatever the memory holds, are set aside.)
C21_EveryInteractionFullyProcessed ==
    trail # <<>> /\ analyzed.response # <<>> =>
        trail \in {StepsDone(FALSE), StepsDone(TRUE)}

\* C22: immediately after a write_entry, get_recent_entries(1) returns a
\* list that is not empty and whose element is the entry just written.
\* The entry ends with a '---' line, so the last part of the split is the
\* white space after it and get_recent_entries(1) is empty.
C22_JournalReadBack ==
    journal_call.op = "write_entry" =>
        LET recent == get_recent_entries(1)
        IN  /\ recent # <<>>
            /\ recent[Len(recent)] = <<journal_call.entry>>

--------------------------------------------------------------------------
(* Claims about the regulator's thresholds, ratchet and logs *)

\* C23: update_from_interaction tests the pain_level after smoothing, not
\* the pain_score argument, and applies exactly one of three cases: pain
\* above 0.6 sets temperature to min(temperature+0.2, 1.3), top_p to
\* min(top_p+0.2, 1.0) and creativity_drive to min(creativity_drive+0.2,
\* 1.0); pain below 0.3 sets temperature to max(temperature-0.1, 0.7) and
\* top_p to max(top_p-0.1, 0.7); pain in [0.3, 0.6] leaves the three
\* unchanged; a change of temperature or top_p of at most 0.05 is not
\* applied.
C23_ThresholdCases ==
    [][now' # now =>
          LET pain == state'.pain_level
              t == state.temperature
              p == state.top_p
              c == state.creativity_drive
              Set(old, new) == IF Abs(new - old) > 50 THEN new ELSE old
          IN  /\ pain > 600 =>
                    /\ state'.temperature = Set(t, Min(t + 200, 1300))
                    /\ state'.top_p = Set(p, Min(p + 200, 1000))
                    /\ state'.creativity_drive = Min(c + 200, 1000)
              /\ pain < 300 =>
                    /\ state'.temperature = Set(t, Max(t - 100, 700))
                    /\ state'.top_p = Set(p, Max(p - 100, 700))
              /\ (300 <= pain /\ pain <= 600) =>
                    /\ state'.temperature = t
                    /\ state'.top_p = p
                    /\ state'.creativity_drive = c]_vars

\* An update whose pain_score is above the high threshold while the
\* smoothed pain_level is not, or below the low one while the pain_level is
\* not
C23_Witness ==
    /\ last.op = "update"
    /\ \/ last.pain_score > 600 /\ state.pain_level <= 600
       \/ last.pain_score < 300 /\ state.pain_level >= 300
    /\ state.pain_level >= 0

\* C24: after any sequence of calculate_reward calls the reward engine's
\* response history holds at most 50 entries: each call appends the
\* response, and when the length would exceed 50 the history is cut to the
\* 25 most recent entries in their original order; the analyzer and the
\* regulator never change it.
C24_EngineHistoryBounded ==
    [][/\ Len(memory_responses') <= 50
       /\ (UNCHANGED <<regVars, anaVars>> /\ result'.outcome = "returned") =>
             LET all == Append(memory_responses, call'.response)
             IN  memory_responses' =
                     IF Len(all) > 50
                     THEN [i \in 1..25 |-> all[Len(all) - 25 + i]]
                     ELSE all
       /\ ~UNCHANGED <<regVars, anaVars>> =>
             UNCHANGED memory_responses]_vars

\* The history after its first cut: 25 entries, the oldest being the 27th
\* response scored
C24_Witness ==
    /\ Len(memory_responses) = 25
    /\ memory_responses[1] = LongResponses[3]
    /\ memory_responses[25] = call.response
    /\ now > 0
    /\ response_history # <<>>

\* The scores of an analysis that depend on the response alone
OwnScores(response) ==
    [redundancy_score |-> analyze_redundancy(response),
     coherence_score |-> analyze_coherence(response),
     complexity_score |-> analyze_complexity(response),
     emotional_depth |-> analyze_emotional_depth(response)]

IsAnalysisOf(a, response) ==
    \A f \in DOMAIN OwnScores(response) : a[f] = OwnScores(response)[f]

\* C25: after any sequence of analyze_response calls the analyzer's
\* response history and analysis history have the same length, at most
\* 100, and entry i of the analysis history is the result computed for
\* entry i of the response history; on overflow past 100 both are cut
\* together to their 50 most recent entries.
C25_HistoriesParallel ==
    [][LET rh == response_history'
           ah == analysis_history'
           all == Append(response_history, analyzed'.response)
       IN  /\ Len(rh) = Len(ah)
           /\ Len(rh) <= 100
           /\ \A i \in DOMAIN rh : IsAnalysisOf(ah[i], rh[i])
           /\ rh = IF Len(all) > 100
                   THEN [i \in 1..50 |-> all[Len(all) - 50 + i]]
                   ELSE all
           /\ Len(all) > 100 =>
                 \A i \in 1..49 : ah[i] = analysis_history[51 + i]]_vars

\* The histories after their first cut: 50 entries, the oldest being the
\* 52nd response analysed
C25_Witness ==
    /\ Len(response_history) = 50
    /\ Len(analysis_history) = 50
    /\ response_history[1] = AnalysedInTurn[1]
    /\ response_history[50] = analyzed.response

\* C26: in every interaction of the orchestration loop the reward passed
\* to update_from_interaction (and stored in memory and in the journal) is
\* in [-1,1] and is the inverse image of the pain_score passed in the same
\* call, pain_score = 1 - (reward + 1)/2, interactions where the creative
\* trigger fired included.  The bonus of an artifact is added to the reward
\* after calculate_reward has normalised it and derived the pain.
C26_RewardInverseOfPain ==
    (last.op = "update" /\ "update" \in {trail[i] : i \in DOMAIN trail}) =>
        /\ -1000 <= last.reward /\ last.reward <= 1000
        /\ Abs(2 * (1000 - last.pain_score) - (last.reward + 1000)) <= 1
        /\ memories[Len(memories)].reward = last.reward
        /\ journal_call.entry.reward = last.reward

\* C27: update_from_interaction never changes frequency_penalty,
\* presence_penalty, exploration_tendency or stability_need: in every
\* state reachable from the default state by updates and resets they keep
\* their defaults (0.0, 0.0, 0.6, 0.4), so get_current_llm_config always
\* reports both penalties as 0.0.
C27_UntouchedFields ==
    /\ state.frequency_penalty = 0
    /\ state.presence_penalty = 0
    /\ state.exploration_tendency = 600
    /\ state.stability_need = 400
    /\ get_current_llm_config.frequency_penalty = 0
    /\ get_current_llm_config.presence_penalty = 0

\* A state after a high-pain update that moved the sampling parameters
C27_Witness ==
    /\ last.op = "update"
    /\ state.pain_level > 600
    /\ state.temperature > 900
    /\ state.satisfaction_level # 500
    /\ Len(reward_history) >= 2

\* C28: creativity_drive is a ratchet: no update_from_interaction ever
\* decreases it, each high-pain update raises it by 0.2 up to 1.0, and once
\* it has reached 1.0 it stays 1.0 through any later sequence of updates
\* until force_reset; so after the first high-pain update it stays above
\* 0.8 for the rest of the run.
C28_CreativityRatchet ==
    [][now' # now =>
          LET c == state.creativity_drive
              d == state'.creativity_drive
          IN  /\ d >= c
              /\ state'.pain_level > 600 => d = Min(c + 200, 1000) /\ d > 800
              /\ c = 1000 => d = 1000
              /\ c > 800 => d > 800]_vars

\* creativity_drive at 1.0 after a low-pain update
C28_Witness ==
    /\ last.op = "update"
    /\ state.creativity_drive = 1000
    /\ state.pain_level < 300
    /\ state.temperature < 1300

MaxRun == 14             \* length of the runs of equal pain scores

InLockstep ==
    /\ Len(reward_history) = Len(pain_history)
    /\ Len(reward_history) = Len(adjustment_log)
    /\ \A k \in 1..Len(reward_history) :
          /\ reward_history[k].timestamp = pain_history[k].timestamp
          /\ reward_history[k].timestamp = adjustment_log[k].timestamp

\* Counted from the end, the records of the three logs were appended by
\* the same updates, as far back as the shorter log reaches.
AlignedFromEnd ==
    /\ Len(reward_history) = Len(pain_history)
    /\ \A k \in 1..Len(reward_history) :
          reward_history[k].timestamp = pain_history[k].timestamp
    /\ \A j \in 0..(Min(Len(reward_history), Len(adjustment_log)) - 1) :
          reward_history[Len(reward_history) - j].timestamp =
              adjustment_log[Len(adjustment_log) - j].timestamp

\* An update appended one record with its timestamp to each log, the one
\* of adjustment_log carrying the adjustments the update returned, which
\* are empty when no sampling parameter changed.
GrewByOne ==
    LET record == adjustment_log'[Len(adjustment_log')] IN
    /\ Len(reward_history') = Len(reward_history) + 1
    /\ Len(pain_history') = Len(pain_history) + 1
    /\ Len(adjustment_log') = Len(adjustment_log) + 1
    /\ reward_history'[Len(reward_history')].timestamp = now
    /\ pain_history'[Len(pain_history')].timestamp = now
    /\ record.timestamp = now
    /\ "adjustments" \in DOMAIN record
    /\ record.adjustments = adjustments'
    /\ (/\ state'.temperature = state.temperature
        /\ state'.top_p = state.top_p) => record.adjustments = EmptyDict

\* C30 (as stated): every update_from_interaction appends exactly one
\* record to each of reward_history, pain_history and adjustment_log,
\* adjusted or not (an empty adjustments map when nothing changed), so
\* within one process the three logs stay in lockstep: record k of each
\* belongs to the same update.
C30_LogsInLockstep ==
    [][/\ now' = now + 1 => GrewByOne
       /\ InLockstep']_vars

\* C30 (amended): every update_from_interaction appends exactly one record
\* to each of the three logs, adjusted or not (an empty adjustments map
\* when nothing changed); reward_history and pain_history stay in lockstep,
\* and adjustment_log is aligned with them from the end: a load brings
\* back the last 100 records of the histories and the last 50 of the log.
C30_LogsAlignedFromEnd ==
    [][/\ now' = now + 1 => GrewByOne
       /\ AlignedFromEnd']_vars

\* An update that changed nothing appended its record with an empty
\* adjustments map to a log loaded shorter than the histories.
C30_Witness ==
    /\ last.op = "update"
    /\ Len(adjustment_log) = AdjustRetention + 1
    /\ Len(reward_history) > Len(adjustment_log)
    /\ adjustment_log[Len(adjustment_log)].adjustments = EmptyDict
    /\ adjustment_log[1].adjustments # EmptyDict

==========================================================================
